---- MODULE Spec2Model ----
(***************************************************************************)
(* Verification model of the cardiogen QC pipelines.                       *)
(*                                                                         *)
(*   SpecSeq   : wgs_sequential_qc_pipeline.py (module-level script and    *)
(*               process_srr), run up to MaxRuns times on one filesystem.  *)
(*   SpecBatch : scripts/run_pipeline.py (main, BatchProcessor).           *)
(*                                                                         *)
(* The filesystem is modelled per sample as the sets of files that the     *)
(* code globs for.  External tools are atomic steps whose exit code and    *)
(* written files are chosen nondeterministically.                          *)
(***************************************************************************)
EXTENDS Integers, Sequences, FiniteSets, TLC

\* ------------------------------------------------------------------ bounds
NumSamples == 2
NumReads == 2
MaxRuns == 2

Srr == 1..NumSamples
Reads == 1..NumReads

\* The external tools of the sequential pipeline, by the stage that calls them.
SeqSampleTools == {"prefetch", "fasterq-dump", "fastqc_raw", "fastp", "fastqc_clean"}
PathTools == {"prefetch", "fasterq-dump", "fastqc", "fastp", "multiqc"}

\* Which binaries may be absent from PATH in a run: none, or any single one.
MissingChoices == {{}} \cup {{t} : t \in PathTools}

\* {1..k}: the files a tool has written when it stops after k of its outputs.
Prefixes(S) == {{r \in S : r <= k} : k \in 0..NumReads}

MinOf(S) == CHOOSE x \in S : \A y \in S : x <= y

NoCrash == [srr |-> 0, k |-> 0]

VARIABLES
  \* ---- sequential pipeline: input and environment
  srr_ids,            \* the accession list read from SRR_LIST
  missing,            \* binaries absent from PATH
  \* ---- sequential pipeline: filesystem
  sraWork,            \* RAW_DIR/srr/srr/srr.sra exists
  sraHome,            \* ~/ncbi/public/sra/srr.sra exists
  rawDir,             \* RAW_DIR/srr exists
  cleanDir,           \* CLEAN_DIR/srr exists
  rawFq,              \* RAW_DIR/srr/srr_<r>.fastq
  cleanFq,            \* CLEAN_DIR/srr/srr_<r>.clean.fastq
  rawHtml, rawZip,    \* FASTQC_RAW_DIR/srr/*_fastqc.html, *_fastqc.zip
  cleanHtml, cleanZip,\* FASTQC_CLEAN_DIR/srr/*_fastqc.html, *_fastqc.zip
  fastpHtml,          \* REPORT_DIR/srr_srr_<r>_fastp.html (and .json)
  mqcRaw, mqcClean,   \* REPORT_DIR/multiqc_{raw,clean}_global.html
  \* ---- sequential pipeline: program state
  pc,
  samples_to_process, samples_skipped,
  idx,                \* position of the for loop over samples_to_process
  cur,                \* srr of the running process_srr call (0: none)
  sra_path,           \* "none" | "work" | "home"
  fastq_files, clean_fastq_files,
  todo,               \* fastq files the fastp loop has still to visit
  \* ---- sequential pipeline: observation
  run,                \* number of the current run
  prevCompleted,      \* the previous run reached the end of the script
  calls,              \* per sample: tools invoked in the current run
  mqcCalls,           \* MultiQC invocations of the current run
  stage,              \* stages completed by the running process_srr call
  lastCrash,          \* where the previous run was killed
  doneAtStart,        \* samples whose four FastQC report sets were there at run start
  earlyReturns,       \* calls of process_srr in this run that returned at the entry check
  \* ---- batch pipeline: input and environment
  rows,               \* the CSV rows: each the accessions of its run_accession cell
  batch_size,
  keep_raw_fastq,
  bMissing,           \* binaries absent from PATH
  diskLow,            \* free space of the working filesystem is below the minimum
  \* ---- batch pipeline: filesystem
  tempDirs,           \* batch numbers n whose DATA_DIR/temp_batch_n exists
  fqFiles,            \* temp_batch_n/fastq/acc/acc*.fastq
  qcTempDir,          \* temp_batch_n/qc/acc exists
  qcTemp,             \* FastQC reports under temp_batch_n/qc/acc
  qcPerm,             \* FastQC reports under QC_DIR/disease/acc
  fileState,          \* per batch: batch_n_results.json "absent" | "truncated" | "written"
  fileRecs,           \* per batch: the records batch_n_results.json holds
  summaryCsv,         \* the rows of processing_summary.csv
  summaryFiles,       \* which of "csv" and "txt" generate_summary_report has written
  summaryReport,      \* what summary_report.txt says: the counts and the date
  summaryRuns,        \* calls of generate_summary_report so far
  now,                \* the clock, in units of the report's date format
  \* ---- batch pipeline: program state
  bpc,
  batch_num,          \* loop variable of main (0-based)
  rowIdx,             \* rows of the DataFrame already iterated
  accIdx,             \* accessions of the current row already iterated
  results,            \* process_batch's list
  all_results,        \* main's list
  result,             \* process_sample's dict
  b_fastq_files,      \* process_sample's fastq_files
  qTodo,              \* files the FastQC loop has still to visit
  all_metrics,
  raising,            \* an exception is propagating out of process_batch
  \* ---- batch pipeline: observation
  bCalls,             \* per accession: tools invoked
  failedTools,        \* per accession: tools that exited non-zero
  raised,             \* accessions during whose processing an exception was raised
  qcProduced,         \* per accession: FastQC reports ever written
  rowLog,             \* the rows iterated so far, each with the number of its batch
  \* ---- metadata download: input and files
  m_srr_ids,          \* list(all_srr_ids): the requested ids, each once
  max_workers,
  temp_file,          \* sra_metadata_PARTIAL_IN_PROGRESS.json
  json_file,          \* sra_metadata_full_<timestamp>.json
  csv_file,           \* sra_metadata_complete_<timestamp>.csv
  \* ---- metadata download: main thread
  mpc,
  all_metadata,       \* download_batch's list (main's metadata_list once returned)
  \* ---- metadata download: executor and worker threads
  executorQueue,      \* ids submitted and not yet taken by a worker
  completed,          \* finished futures as_completed has not yet yielded, oldest first
  wpc,                \* per worker: "idle" | "rl_read" | "rl_sleep" | "rl_set"
  wtask,              \* per worker: the id its download_metadata call is for (0: none)
  wreq,               \* per worker: the request it is about to make
  wwake,              \* per worker: the time its time.sleep ends
  wuid,               \* per worker: search_srr returned a UID
  last_request_time,
  clock,              \* time.time(), in quarters of a second
  \* ---- metadata download: observation
  reqTimes,           \* the times the last two HTTP requests were issued at
  loaded,             \* ids of the records download_batch loaded from temp_file
  started,            \* ids download_metadata was called for in this run
  mRun,               \* number of the current run
  \* ---- FASTQ quality control: input
  fastq_pairs,        \* number of _1/_2 FASTQ pairs found in disease_dir
  qcMissing,          \* binaries absent from PATH
  \* ---- FASTQ quality control: program state
  qpc,
  jobStatus,          \* per job: "none" | "queued" | "running" | "true" | "false" | "raised"
  workQueue,          \* jobs submitted and not yet started, oldest first
  consumed,           \* futures the as_completed loops have yielded
  \* ---- FASTQ quality control: observation
  multiqcCalls,
  peakRunning         \* the largest number of jobs that were running at once

seqVars == <<srr_ids, missing, sraWork, sraHome, rawDir, cleanDir, rawFq, cleanFq,
             rawHtml, rawZip, cleanHtml, cleanZip, fastpHtml, mqcRaw, mqcClean,
             pc, samples_to_process, samples_skipped, idx, cur, sra_path,
             fastq_files, clean_fastq_files, todo,
             run, prevCompleted, calls, mqcCalls, stage, lastCrash,
             doneAtStart, earlyReturns>>

batchVars == <<rows, batch_size, keep_raw_fastq, bMissing, diskLow, tempDirs, fqFiles,
               qcTempDir, qcTemp, qcPerm, fileState, fileRecs, summaryCsv, summaryFiles,
               summaryReport, summaryRuns, now,
               bpc, batch_num, rowIdx, accIdx, results, all_results, result,
               b_fastq_files, qTodo, all_metrics, raising,
               bCalls, failedTools, raised, qcProduced, rowLog>>

metaVars == <<m_srr_ids, max_workers, temp_file, json_file, csv_file, mpc, all_metadata,
              executorQueue, completed, wpc, wtask, wreq, wwake, wuid,
              last_request_time, clock, reqTimes, loaded, started, mRun>>

qcVars == <<fastq_pairs, qcMissing, qpc, jobStatus, workQueue, consumed,
            multiqcCalls, peakRunning>>

vars == <<seqVars, batchVars, metaVars, qcVars>>

bInput == <<rows, batch_size, keep_raw_fastq, bMissing, diskLow>>
bFs == <<tempDirs, fqFiles, qcTempDir, qcTemp, qcPerm>>
bOut == <<fileState, fileRecs, summaryCsv, summaryFiles, summaryReport, summaryRuns, now>>
bLoop == <<batch_num, rowIdx, accIdx, results, all_results>>
bLocals == <<result, b_fastq_files, qTodo, all_metrics>>
bObs == <<bCalls, failedTools, raised, qcProduced, rowLog>>

\* What the sequential pipeline leaves alone, and what the batch pipeline does.
notSeqVars == <<batchVars, metaVars, qcVars>>
notBatchVars == <<seqVars, metaVars, qcVars>>
notMetaVars == <<seqVars, batchVars, qcVars>>
notQcVars == <<seqVars, batchVars, metaVars>>

seqFs == <<sraWork, sraHome, rawDir, cleanDir, rawFq, cleanFq, rawHtml, rawZip,
           cleanHtml, cleanZip, fastpHtml, mqcRaw, mqcClean>>
seqInput == <<srr_ids, missing>>
seqRunHist == <<run, prevCompleted, lastCrash, doneAtStart, earlyReturns>>

\* ------------------------------------------------------------ batch bounds
MaxRows == 3
MaxAccPerRow == 2
MaxBatchSize == 2

MaxAcc == 2
MaxSummaryRuns == 2
MaxClock == 1
Acc == 1..MaxAcc
Batches == 1..MaxRows

NoResult == [accession |-> 0, status |-> "failed", error |-> "None",
             metrics |-> <<>>, fastq_count |-> 0]

\* ---- bounds of the metadata download and of the FASTQ quality control
MaxIds == 2
MaxWorkers == 2
MaxTime == 6
MaxMetaRuns == 2
MaxPairs == 3

Ids == 1..MaxIds
Workers == 1..MaxWorkers

\* The jobs process_fastq_files gives to its executor: run_fastqc for each file of each
\* pair (file 2p-1 and file 2p are the pair p), run_trimmomatic for each pair.
FastqcJobs == {[kind |-> "fastqc", n |-> f] : f \in 1..(2 * MaxPairs)}
TrimJobs == {[kind |-> "trimmomatic", n |-> q] : q \in 1..MaxPairs}
Jobs == FastqcJobs \cup TrimJobs

NoFile == [exists |-> FALSE, valid |-> FALSE, recs |-> <<>>]

\* The metadata download at rest (while another program is the one running).
MetaIdle ==
  /\ m_srr_ids = <<>> /\ max_workers = 1
  /\ temp_file = NoFile /\ json_file = NoFile /\ csv_file = NoFile
  /\ mpc = "idle" /\ all_metadata = <<>>
  /\ executorQueue = <<>> /\ completed = <<>>
  /\ wpc = [w \in Workers |-> "idle"]
  /\ wtask = [w \in Workers |-> 0]
  /\ wreq = [w \in Workers |-> "none"]
  /\ wwake = [w \in Workers |-> 0]
  /\ wuid = [w \in Workers |-> FALSE]
  /\ last_request_time = 0 /\ clock = 0
  /\ reqTimes = <<>> /\ loaded = {} /\ started = {} /\ mRun = 1

\* The FASTQ quality control at rest (while another program is the one running).
QcIdle ==
  /\ fastq_pairs = 0 /\ qcMissing = {}
  /\ qpc = "idle"
  /\ jobStatus = [j \in Jobs |-> "none"]
  /\ workQueue = <<>> /\ consumed = {}
  /\ multiqcCalls = 0 /\ peakRunning = 0

\* The batch pipeline at rest (while the sequential pipeline is the one running).
NoReport == [total |-> 0, successful |-> 0, failed |-> 0, date |-> 0]

BatchIdle ==
  /\ rows = <<>> /\ batch_size = 1 /\ keep_raw_fastq = FALSE /\ bMissing = {}
  /\ diskLow = FALSE /\ tempDirs = {}
  /\ fqFiles = [a \in Acc |-> {}]
  /\ qcTempDir = [a \in Acc |-> FALSE]
  /\ qcTemp = [a \in Acc |-> {}]
  /\ qcPerm = [a \in Acc |-> {}]
  /\ fileState = [b \in Batches |-> "absent"]
  /\ fileRecs = [b \in Batches |-> <<>>]
  /\ summaryCsv = <<>> /\ summaryFiles = {}
  /\ summaryReport = NoReport /\ summaryRuns = 0 /\ now = 0
  /\ bpc = "idle" /\ batch_num = 0 /\ rowIdx = 0 /\ accIdx = 0
  /\ results = <<>> /\ all_results = <<>> /\ result = NoResult
  /\ b_fastq_files = {} /\ qTodo = {} /\ all_metrics = <<>> /\ raising = FALSE
  /\ bCalls = [a \in Acc |-> {}]
  /\ failedTools = [a \in Acc |-> {}]
  /\ raised = {}
  /\ qcProduced = [a \in Acc |-> {}]
  /\ rowLog = <<>>

\* ------------------------------------------------------- tool behaviour
\* prefetch: exit 0 with the .sra in place, exit 0 without it, or non-zero.
PrefetchOutcomes == {[exit |-> 0, file |-> TRUE], [exit |-> 0, file |-> FALSE],
                     [exit |-> 1, file |-> FALSE]}

\* fasterq-dump --split-files: the srr_<r>.fastq files it leaves, and its exit code.
FasterqOutcomes == {[exit |-> e, files |-> f] : e \in {0, 1}, f \in Prefixes(Reads)}

\* fastqc on `inputs`: on exit 0 a html and a zip per input; a failing run may
\* leave the reports of some inputs, and a html without its zip.
FastqcOutcomes(inputs) ==
  {[exit |-> 0, html |-> inputs, zip |-> inputs]}
  \cup UNION {{[exit |-> 1, html |-> h, zip |-> z] : z \in {{}, h}} :
                h \in Prefixes(inputs)}

\* fastp on one file: on exit 0 the filtered file and the report; a failing run
\* may leave either.
FastpOutcomes == {[exit |-> 0, out |-> TRUE, html |-> TRUE]}
                 \cup {[exit |-> 1, out |-> o, html |-> h] : o \in BOOLEAN, h \in BOOLEAN}

\* multiqc: exit 0 with multiqc_report.html, exit 0 without it, or non-zero.
MultiqcOutcomes == {[exit |-> 0, report |-> TRUE], [exit |-> 0, report |-> FALSE],
                    [exit |-> 1, report |-> FALSE]}

\* ------------------------------------------------------- probes
\* A sample's raw and clean FastQC directories each hold a html and a zip report.
ReportsComplete(s) ==
  rawHtml[s] # {} /\ rawZip[s] # {} /\ cleanHtml[s] # {} /\ cleanZip[s] # {}

\* The clean probe looks into CLEAN_DIR/srr, which the cleanup has emptied.
is_sample_processed_wrongdir(s) ==
  LET raw_has_reports == rawHtml[s] # {} /\ rawZip[s] # {}
      clean_has_reports == cleanFq[s] # {}
  IN raw_has_reports /\ clean_has_reports

is_sample_processed(s) ==
  LET raw_has_reports == rawHtml[s] # {} /\ rawZip[s] # {}
      clean_has_reports == cleanHtml[s] # {} /\ cleanZip[s] # {}
  IN raw_has_reports /\ clean_has_reports

find_existing_sra(s) ==
  IF sraWork[s] THEN "work" ELSE IF sraHome[s] THEN "home" ELSE "none"

find_existing_fastq(s) == IF rawDir[s] THEN rawFq[s] ELSE {}

raw_fastqc_done(s) == rawHtml[s] # {}

clean_fastqc_done(s) == cleanHtml[s] # {}

fastp_already_done(s, fq) == fq \in cleanFq[s] \/ fq \in fastpHtml[s]

\* The filter loop inserting at the front of the list instead of appending.
SeqSelect_reversed(seq, keep) ==
  LET F[i \in 0..Len(seq)] ==
        IF i = 0 THEN <<>>
        ELSE IF seq[i] \in keep THEN <<seq[i]>> \o F[i-1] ELSE F[i-1]
  IN F[Len(seq)]

SeqSelect(seq, keep) ==
  LET F[i \in 0..Len(seq)] ==
        IF i = 0 THEN <<>>
        ELSE IF seq[i] \in keep THEN Append(F[i-1], seq[i]) ELSE F[i-1]
  IN F[Len(seq)]

\* ------------------------------------------------------- initial state
\* The non-blank lines of SRR_LIST: distinct ids, or one id listed on every line
\* (the file is read as it is, nothing removes a repeated line).
SrrLists == {[i \in 1..n |-> i] : n \in 1..NumSamples} \cup {[i \in 1..NumSamples |-> 1]}

SeqStart ==
  /\ srr_ids \in SrrLists
  /\ missing \in MissingChoices
  /\ sraWork = [s \in Srr |-> FALSE]
  /\ sraHome \in [Srr -> BOOLEAN]
  /\ rawDir = [s \in Srr |-> FALSE]
  /\ cleanDir = [s \in Srr |-> FALSE]
  /\ rawFq = [s \in Srr |-> {}]
  /\ cleanFq = [s \in Srr |-> {}]
  /\ rawHtml = [s \in Srr |-> {}]
  /\ rawZip = [s \in Srr |-> {}]
  /\ cleanHtml = [s \in Srr |-> {}]
  /\ cleanZip = [s \in Srr |-> {}]
  /\ fastpHtml = [s \in Srr |-> {}]
  /\ mqcRaw = FALSE
  /\ mqcClean = FALSE
  /\ pc = "filter"
  /\ samples_to_process = <<>>
  /\ samples_skipped = <<>>
  /\ idx = 0
  /\ cur = 0
  /\ sra_path = "none"
  /\ fastq_files = {}
  /\ clean_fastq_files = {}
  /\ todo = {}
  /\ run = 1
  /\ prevCompleted = FALSE
  /\ calls = [s \in Srr |-> {}]
  /\ mqcCalls = {}
  /\ stage = 0
  /\ lastCrash = NoCrash
  /\ doneAtStart = {}
  /\ earlyReturns = 0

\* The sequential pipeline at rest (while the batch pipeline is the one running).
SeqIdle ==
  /\ srr_ids = <<>> /\ missing = {}
  /\ sraWork = [s \in Srr |-> FALSE] /\ sraHome = [s \in Srr |-> FALSE]
  /\ rawDir = [s \in Srr |-> FALSE] /\ cleanDir = [s \in Srr |-> FALSE]
  /\ rawFq = [s \in Srr |-> {}] /\ cleanFq = [s \in Srr |-> {}]
  /\ rawHtml = [s \in Srr |-> {}] /\ rawZip = [s \in Srr |-> {}]
  /\ cleanHtml = [s \in Srr |-> {}] /\ cleanZip = [s \in Srr |-> {}]
  /\ fastpHtml = [s \in Srr |-> {}]
  /\ mqcRaw = FALSE /\ mqcClean = FALSE
  /\ pc = "idle"
  /\ samples_to_process = <<>> /\ samples_skipped = <<>>
  /\ idx = 0 /\ cur = 0 /\ sra_path = "none"
  /\ fastq_files = {} /\ clean_fastq_files = {} /\ todo = {}
  /\ run = 1 /\ prevCompleted = FALSE
  /\ calls = [s \in Srr |-> {}] /\ mqcCalls = {}
  /\ stage = 0 /\ lastCrash = NoCrash /\ doneAtStart = {} /\ earlyReturns = 0

InitSeq == SeqStart /\ BatchIdle /\ MetaIdle /\ QcIdle

Called(t) == calls' = [calls EXCEPT ![cur] = @ \cup {t}]

\* ------------------------------------------------------- module-level script
\* Lines 239-252: partition the list by is_sample_processed.
Filter ==
  /\ pc = "filter"
  /\ LET done == {s \in Srr : is_sample_processed(s)} IN
       /\ samples_skipped' = SeqSelect(srr_ids, done)
       /\ samples_to_process' = SeqSelect(srr_ids, Srr \ done)
  /\ idx' = 0
  /\ pc' = "loop"
  /\ UNCHANGED <<seqFs, seqInput, seqRunHist, cur, sra_path, fastq_files,
                 clean_fastq_files, todo, calls, mqcCalls, stage>>
  /\ UNCHANGED notSeqVars

\* Lines 258-265: the for loop calls process_srr on the next sample.
LoopNext ==
  /\ pc = "loop"
  /\ idx < Len(samples_to_process)
  /\ idx' = idx + 1
  /\ cur' = samples_to_process[idx + 1]
  /\ pc' = "entry"
  /\ UNCHANGED <<seqFs, seqInput, seqRunHist, samples_to_process, samples_skipped,
                 sra_path, fastq_files, clean_fastq_files, todo, calls, mqcCalls, stage>>
  /\ UNCHANGED notSeqVars

LoopEnd ==
  /\ pc = "loop"
  /\ idx >= Len(samples_to_process)
  /\ pc' = "mqc_raw"
  /\ UNCHANGED <<seqFs, seqInput, seqRunHist, samples_to_process, samples_skipped,
                 idx, cur, sra_path, fastq_files, clean_fastq_files, todo, calls,
                 mqcCalls, stage>>
  /\ UNCHANGED notSeqVars

\* ------------------------------------------------------- process_srr
\* Lines 71-81: locals, and the early return when the sample is already processed.
Entry ==
  /\ pc = "entry"
  /\ fastq_files' = {}
  /\ clean_fastq_files' = {}
  /\ stage' = 0
  /\ pc' = IF is_sample_processed(cur) THEN "loop" ELSE "s1"
  /\ cur' = IF is_sample_processed(cur) THEN 0 ELSE cur
  /\ earlyReturns' = IF is_sample_processed(cur) THEN earlyReturns + 1 ELSE earlyReturns
  /\ UNCHANGED <<seqFs, seqInput, run, prevCompleted, lastCrash, doneAtStart,
                 samples_to_process, samples_skipped,
                 idx, sra_path, todo, calls, mqcCalls>>
  /\ UNCHANGED notSeqVars

\* Lines 84-96: use an existing SRA file, else prefetch it and check it is there.
S1_Fetch ==
  /\ pc = "s1"
  /\ LET existing_sra == find_existing_sra(cur) IN
       IF existing_sra # "none"
       THEN /\ sra_path' = existing_sra
            /\ pc' = "s2"
            /\ stage' = 1
            /\ UNCHANGED <<rawDir, sraWork, calls>>
       ELSE /\ rawDir' = [rawDir EXCEPT ![cur] = TRUE]
            /\ IF "prefetch" \in missing
               THEN /\ pc' = "except"
                    /\ UNCHANGED <<sraWork, calls, sra_path, stage>>
               ELSE \E o \in PrefetchOutcomes :
                      /\ Called("prefetch")
                      /\ sraWork' = [sraWork EXCEPT ![cur] = o.file]
                      /\ IF o.exit = 0 /\ o.file
                         THEN pc' = "s2" /\ sra_path' = "work" /\ stage' = 1
                         ELSE pc' = "except" /\ UNCHANGED <<sra_path, stage>>
  /\ UNCHANGED <<seqInput, seqRunHist, sraHome, cleanDir, rawFq, cleanFq, rawHtml,
                 rawZip, cleanHtml, cleanZip, fastpHtml, mqcRaw, mqcClean,
                 samples_to_process, samples_skipped, idx, cur, fastq_files,
                 clean_fastq_files, todo, mqcCalls>>
  /\ UNCHANGED notSeqVars

\* Lines 98-116: use existing FASTQ files, else fasterq-dump and glob its output.
S2_Convert ==
  /\ pc = "s2"
  /\ LET existing_fastq == find_existing_fastq(cur) IN
       IF existing_fastq # {}
       THEN /\ fastq_files' = existing_fastq
            /\ pc' = "s2_rm"
            /\ stage' = 2
            /\ UNCHANGED <<rawDir, rawFq, calls>>
       ELSE /\ rawDir' = [rawDir EXCEPT ![cur] = TRUE]
            /\ IF "fasterq-dump" \in missing
               THEN /\ pc' = "except"
                    /\ UNCHANGED <<rawFq, calls, fastq_files, stage>>
               ELSE \E o \in FasterqOutcomes :
                      /\ Called("fasterq-dump")
                      /\ rawFq' = [rawFq EXCEPT ![cur] = o.files]
                      /\ IF o.exit = 0
                         THEN /\ fastq_files' = o.files
                              /\ IF o.files = {}
                                 THEN pc' = "except" /\ UNCHANGED stage
                                 ELSE pc' = "s2_rm" /\ stage' = 2
                         ELSE pc' = "except" /\ UNCHANGED <<fastq_files, stage>>
  /\ UNCHANGED <<seqInput, seqRunHist, sraWork, sraHome, cleanDir, cleanFq, rawHtml,
                 rawZip, cleanHtml, cleanZip, fastpHtml, mqcRaw, mqcClean,
                 samples_to_process, samples_skipped, idx, cur, sra_path,
                 clean_fastq_files, todo, mqcCalls>>
  /\ UNCHANGED notSeqVars

\* Lines 118-125: unlink the SRA file and remove its directory.
S2_RemoveSra ==
  /\ pc = "s2_rm"
  /\ sraWork' = [sraWork EXCEPT ![cur] = FALSE]
  /\ sraHome' = [sraHome EXCEPT ![cur] = IF sra_path = "home" THEN FALSE ELSE @]
  /\ pc' = "s3"
  /\ UNCHANGED <<seqInput, seqRunHist, rawDir, cleanDir, rawFq, cleanFq, rawHtml,
                 rawZip, cleanHtml, cleanZip, fastpHtml, mqcRaw, mqcClean,
                 samples_to_process, samples_skipped, idx, cur, sra_path,
                 fastq_files, clean_fastq_files, todo, calls, mqcCalls, stage>>
  /\ UNCHANGED notSeqVars

\* Lines 127-142: FastQC on the raw FASTQ files unless a html report is there.
S3_RawFastqc ==
  /\ pc = "s3"
  /\ IF raw_fastqc_done(cur)
     THEN /\ pc' = "s4"
          /\ stage' = 3
          /\ UNCHANGED <<rawHtml, rawZip, calls>>
     ELSE IF "fastqc" \in missing
          THEN /\ pc' = "except"
               /\ UNCHANGED <<rawHtml, rawZip, calls, stage>>
          ELSE \E o \in FastqcOutcomes(fastq_files) :
                 /\ Called("fastqc_raw")
                 /\ rawHtml' = [rawHtml EXCEPT ![cur] = @ \cup o.html]
                 /\ rawZip' = [rawZip EXCEPT ![cur] = @ \cup o.zip]
                 /\ IF o.exit = 0
                    THEN pc' = "s4" /\ stage' = 3
                    ELSE pc' = "except" /\ UNCHANGED stage
  /\ UNCHANGED <<seqInput, seqRunHist, sraWork, sraHome, rawDir, cleanDir, rawFq,
                 cleanFq, cleanHtml, cleanZip, fastpHtml, mqcRaw, mqcClean,
                 samples_to_process, samples_skipped, idx, cur, sra_path,
                 fastq_files, clean_fastq_files, todo, mqcCalls>>
  /\ UNCHANGED notSeqVars

\* Lines 144-147: create CLEAN_DIR/srr and enter the loop over fastq_files.
S4_Begin ==
  /\ pc = "s4"
  /\ cleanDir' = [cleanDir EXCEPT ![cur] = TRUE]
  /\ todo' = fastq_files
  /\ pc' = "s4_loop"
  /\ UNCHANGED <<seqInput, seqRunHist, sraWork, sraHome, rawDir, rawFq, cleanFq,
                 rawHtml, rawZip, cleanHtml, cleanZip, fastpHtml, mqcRaw, mqcClean,
                 samples_to_process, samples_skipped, idx, cur, sra_path,
                 fastq_files, clean_fastq_files, calls, mqcCalls, stage>>
  /\ UNCHANGED notSeqVars

\* Lines 147-167: one iteration: skip a file whose output or report exists, else fastp.
S4_Fastp ==
  /\ pc = "s4_loop"
  /\ todo # {}
  /\ LET fq == MinOf(todo) IN
       /\ todo' = todo \ {fq}
       /\ IF fastp_already_done(cur, fq)
          THEN /\ clean_fastq_files' =
                    IF fq \in cleanFq[cur] THEN clean_fastq_files \cup {fq}
                    ELSE clean_fastq_files
               /\ pc' = "s4_loop"
               /\ UNCHANGED <<cleanFq, fastpHtml, calls>>
          ELSE IF "fastp" \in missing
               THEN /\ pc' = "except"
                    /\ UNCHANGED <<cleanFq, fastpHtml, calls, clean_fastq_files>>
               ELSE \E o \in FastpOutcomes :
                      /\ Called("fastp")
                      /\ cleanFq' = [cleanFq EXCEPT ![cur] =
                                       IF o.out THEN @ \cup {fq} ELSE @]
                      /\ fastpHtml' = [fastpHtml EXCEPT ![cur] =
                                         IF o.html THEN @ \cup {fq} ELSE @]
                      /\ IF o.exit = 0
                         THEN /\ clean_fastq_files' = clean_fastq_files \cup {fq}
                              /\ pc' = "s4_loop"
                         ELSE /\ pc' = "except"
                              /\ UNCHANGED clean_fastq_files
  /\ UNCHANGED <<seqInput, seqRunHist, sraWork, sraHome, rawDir, cleanDir, rawFq,
                 rawHtml, rawZip, cleanHtml, cleanZip, mqcRaw, mqcClean,
                 samples_to_process, samples_skipped, idx, cur, sra_path,
                 fastq_files, mqcCalls, stage>>
  /\ UNCHANGED notSeqVars

\* Lines 169-178: fall back to the clean files on disk, then unlink the raw FASTQ.
S4_RemoveRaw ==
  /\ pc = "s4_loop"
  /\ todo = {}
  /\ clean_fastq_files' =
       IF clean_fastq_files = {} THEN cleanFq[cur] ELSE clean_fastq_files
  /\ rawFq' = [rawFq EXCEPT ![cur] = @ \ fastq_files]
  /\ fastq_files' = {}
  /\ stage' = 4
  /\ pc' = "s5"
  /\ UNCHANGED <<seqInput, seqRunHist, sraWork, sraHome, rawDir, cleanDir, cleanFq,
                 rawHtml, rawZip, cleanHtml, cleanZip, fastpHtml, mqcRaw, mqcClean,
                 samples_to_process, samples_skipped, idx, cur, sra_path, todo,
                 calls, mqcCalls>>
  /\ UNCHANGED notSeqVars

\* Lines 180-195: FastQC on the clean FASTQ files unless a html report is there.
S5_CleanFastqc ==
  /\ pc = "s5"
  /\ IF clean_fastqc_done(cur)
     THEN /\ pc' = "s5_rm"
          /\ stage' = 5
          /\ UNCHANGED <<cleanHtml, cleanZip, calls>>
     ELSE IF "fastqc" \in missing
          THEN /\ pc' = "except"
               /\ UNCHANGED <<cleanHtml, cleanZip, calls, stage>>
          ELSE \E o \in FastqcOutcomes(clean_fastq_files) :
                 /\ Called("fastqc_clean")
                 /\ cleanHtml' = [cleanHtml EXCEPT ![cur] = @ \cup o.html]
                 /\ cleanZip' = [cleanZip EXCEPT ![cur] = @ \cup o.zip]
                 /\ IF o.exit = 0
                    THEN pc' = "s5_rm" /\ stage' = 5
                    ELSE pc' = "except" /\ UNCHANGED stage
  /\ UNCHANGED <<seqInput, seqRunHist, sraWork, sraHome, rawDir, cleanDir, rawFq,
                 cleanFq, rawHtml, rawZip, fastpHtml, mqcRaw, mqcClean,
                 samples_to_process, samples_skipped, idx, cur, sra_path,
                 fastq_files, clean_fastq_files, todo, mqcCalls>>
  /\ UNCHANGED notSeqVars

\* Lines 197-204: unlink the clean FASTQ files; the try block ends.
S5_RemoveClean ==
  /\ pc = "s5_rm"
  /\ cleanFq' = [cleanFq EXCEPT ![cur] = @ \ clean_fastq_files]
  /\ clean_fastq_files' = {}
  /\ pc' = "finally"
  /\ UNCHANGED <<seqInput, seqRunHist, sraWork, sraHome, rawDir, cleanDir, rawFq,
                 rawHtml, rawZip, cleanHtml, cleanZip, fastpHtml, mqcRaw, mqcClean,
                 samples_to_process, samples_skipped, idx, cur, sra_path,
                 fastq_files, todo, calls, mqcCalls, stage>>
  /\ UNCHANGED notSeqVars

TrySteps == {"s1", "s2", "s2_rm", "s3", "s4", "s4_loop", "s5", "s5_rm"}

\* Any statement of the try block may raise (OSError from mkdir, unlink, ...).
Raise ==
  /\ pc \in TrySteps
  /\ pc' = "except"
  /\ UNCHANGED <<seqFs, seqInput, seqRunHist, samples_to_process, samples_skipped,
                 idx, cur, sra_path, fastq_files, clean_fastq_files, todo, calls,
                 mqcCalls, stage>>
  /\ UNCHANGED notSeqVars

\* Lines 206-214: except Exception: unlink what fastq_files and clean_fastq_files name.
Except ==
  /\ pc = "except"
  /\ rawFq' = [rawFq EXCEPT ![cur] = @ \ fastq_files]
  /\ cleanFq' = [cleanFq EXCEPT ![cur] = @ \ clean_fastq_files]
  /\ pc' = "finally"
  /\ UNCHANGED <<seqInput, seqRunHist, sraWork, sraHome, rawDir, cleanDir, rawHtml,
                 rawZip, cleanHtml, cleanZip, fastpHtml, mqcRaw, mqcClean,
                 samples_to_process, samples_skipped, idx, cur, sra_path,
                 fastq_files, clean_fastq_files, todo, calls, mqcCalls, stage>>
  /\ UNCHANGED notSeqVars

\* Lines 216-237: finally: rmtree RAW_DIR/srr and CLEAN_DIR/srr; process_srr returns.
Finally ==
  /\ pc = "finally"
  /\ sraWork' = [sraWork EXCEPT ![cur] = FALSE]
  /\ rawFq' = [rawFq EXCEPT ![cur] = {}]
  /\ cleanFq' = [cleanFq EXCEPT ![cur] = {}]
  /\ rawDir' = [rawDir EXCEPT ![cur] = FALSE]
  /\ cleanDir' = [cleanDir EXCEPT ![cur] = FALSE]
  /\ cur' = 0
  /\ sra_path' = "none"
  /\ fastq_files' = {}
  /\ clean_fastq_files' = {}
  /\ todo' = {}
  /\ stage' = 0
  /\ pc' = "loop"
  /\ UNCHANGED <<seqInput, seqRunHist, sraHome, rawHtml, rawZip, cleanHtml, cleanZip,
                 fastpHtml, mqcRaw, mqcClean, samples_to_process, samples_skipped,
                 idx, calls, mqcCalls>>
  /\ UNCHANGED notSeqVars

\* ------------------------------------------------------- global MultiQC
\* Lines 272-289: MultiQC over FASTQC_RAW_DIR whenever any raw html report exists.
MultiqcRaw ==
  /\ pc = "mqc_raw"
  /\ IF \E s \in Srr : rawHtml[s] # {}
     THEN IF "multiqc" \in missing
          THEN pc' = "aborted" /\ UNCHANGED <<mqcRaw, mqcCalls>>
          ELSE \E o \in MultiqcOutcomes :
                 /\ mqcCalls' = mqcCalls \cup {"raw"}
                 /\ mqcRaw' = (mqcRaw \/ o.report)
                 /\ pc' = IF o.exit = 0 THEN "mqc_clean" ELSE "aborted"
     ELSE pc' = "mqc_clean" /\ UNCHANGED <<mqcRaw, mqcCalls>>
  /\ UNCHANGED <<seqInput, seqRunHist, sraWork, sraHome, rawDir, cleanDir, rawFq,
                 cleanFq, rawHtml, rawZip, cleanHtml, cleanZip, fastpHtml, mqcClean,
                 samples_to_process, samples_skipped, idx, cur, sra_path,
                 fastq_files, clean_fastq_files, todo, calls, stage>>
  /\ UNCHANGED notSeqVars

\* Lines 291-308: MultiQC over FASTQC_CLEAN_DIR whenever any clean html report exists.
MultiqcClean ==
  /\ pc = "mqc_clean"
  /\ IF \E s \in Srr : cleanHtml[s] # {}
     THEN IF "multiqc" \in missing
          THEN pc' = "aborted" /\ UNCHANGED <<mqcClean, mqcCalls>>
          ELSE \E o \in MultiqcOutcomes :
                 /\ mqcCalls' = mqcCalls \cup {"clean"}
                 /\ mqcClean' = (mqcClean \/ o.report)
                 /\ pc' = IF o.exit = 0 THEN "finished" ELSE "aborted"
     ELSE pc' = "finished" /\ UNCHANGED <<mqcClean, mqcCalls>>
  /\ UNCHANGED <<seqInput, seqRunHist, sraWork, sraHome, rawDir, cleanDir, rawFq,
                 cleanFq, rawHtml, rawZip, cleanHtml, cleanZip, fastpHtml, mqcRaw,
                 samples_to_process, samples_skipped, idx, cur, sra_path,
                 fastq_files, clean_fastq_files, todo, calls, stage>>
  /\ UNCHANGED notSeqVars

\* ------------------------------------------------------- the process and its runs
Stopped == {"finished", "aborted", "killed"}

\* The stage boundary the running process_srr call is at (0: inside a stage or none).
StageBoundary ==
  IF cur = 0 \/ pc \notin TrySteps THEN 0
  ELSE IF pc = "s4_loop"
       THEN (IF todo = {} THEN 4 ELSE IF todo = fastq_files THEN 3 ELSE 0)
       ELSE stage

\* The process is killed from outside: no handler runs, the filesystem stays as it is.
Crash ==
  /\ pc \notin Stopped
  /\ pc' = "killed"
  /\ lastCrash' = [srr |-> IF StageBoundary = 0 THEN 0 ELSE cur, k |-> StageBoundary]
  /\ UNCHANGED <<seqFs, seqInput, run, prevCompleted, doneAtStart, earlyReturns,
                 samples_to_process, samples_skipped, idx, cur, sra_path,
                 fastq_files, clean_fastq_files, todo, calls, mqcCalls, stage>>
  /\ UNCHANGED notSeqVars

\* The script is started again on the same filesystem and the same list.
Restart ==
  /\ pc \in Stopped
  /\ run < MaxRuns
  /\ run' = run + 1
  /\ prevCompleted' = (pc = "finished")
  /\ lastCrash' = IF pc = "killed" THEN lastCrash ELSE NoCrash
  /\ doneAtStart' = {s \in Srr : ReportsComplete(s)}
  /\ earlyReturns' = 0
  /\ pc' = "filter"
  /\ samples_to_process' = <<>>
  /\ samples_skipped' = <<>>
  /\ idx' = 0
  /\ cur' = 0
  /\ sra_path' = "none"
  /\ fastq_files' = {}
  /\ clean_fastq_files' = {}
  /\ todo' = {}
  /\ stage' = 0
  /\ calls' = [s \in Srr |-> {}]
  /\ mqcCalls' = {}
  /\ UNCHANGED <<seqFs, seqInput>>
  /\ UNCHANGED notSeqVars

NextSeq ==
  \/ Filter \/ LoopNext \/ LoopEnd \/ Entry
  \/ S1_Fetch \/ S2_Convert \/ S2_RemoveSra \/ S3_RawFastqc
  \/ S4_Begin \/ S4_Fastp \/ S4_RemoveRaw \/ S5_CleanFastqc \/ S5_RemoveClean
  \/ Raise \/ Except \/ Finally
  \/ MultiqcRaw \/ MultiqcClean
  \/ Crash \/ Restart

SpecSeq == InitSeq /\ [][NextSeq]_vars

\* =============================================== batch pipeline (run_pipeline.py)
SumTo(c, i) ==
  LET F[k \in 0..Len(c)] == IF k = 0 THEN 0 ELSE F[k-1] + c[k]
  IN F[i]

\* The DataFrame whose i-th run_accession cell lists c[i] accessions, numbered on.
RowsOf(c) == [i \in 1..Len(c) |-> [j \in 1..c[i] |-> SumTo(c, i-1) + j]]

RowShapes == {c \in UNION {[1..n -> 0..MaxAccPerRow] : n \in 1..MaxRows} :
                SumTo(c, Len(c)) <= MaxAcc}

InitBatch ==
  /\ SeqIdle /\ MetaIdle /\ QcIdle
  /\ rows \in {RowsOf(c) : c \in RowShapes}
  /\ batch_size \in 1..MaxBatchSize
  /\ keep_raw_fastq \in BOOLEAN
  /\ bMissing \in {{}} \cup {{t} : t \in {"prefetch", "fasterq-dump", "fastqc"}}
  /\ diskLow \in BOOLEAN
  /\ tempDirs = {}
  /\ fqFiles = [a \in Acc |-> {}]
  /\ qcTempDir = [a \in Acc |-> FALSE]
  /\ qcTemp = [a \in Acc |-> {}]
  /\ qcPerm = [a \in Acc |-> {}]
  /\ fileState = [b \in Batches |-> "absent"]
  /\ fileRecs = [b \in Batches |-> <<>>]
  /\ summaryCsv = <<>> /\ summaryFiles = {}
  /\ summaryReport = NoReport /\ summaryRuns = 0 /\ now = 0
  /\ bpc = "verify" /\ batch_num = 0 /\ rowIdx = 0 /\ accIdx = 0
  /\ results = <<>> /\ all_results = <<>> /\ result = NoResult
  /\ b_fastq_files = {} /\ qTodo = {} /\ all_metrics = <<>> /\ raising = FALSE
  /\ bCalls = [a \in Acc |-> {}]
  /\ failedTools = [a \in Acc |-> {}]
  /\ raised = {}
  /\ qcProduced = [a \in Acc |-> {}]
  /\ rowLog = <<>>

\* The number of batches with the division rounding down and nothing added.
num_batches_floor == Len(rows) \div batch_size

\* main, lines 445-450.
num_batches == (Len(rows) + batch_size - 1) \div batch_size
start_idx == batch_num * batch_size
end_idx == IF start_idx + batch_size < Len(rows) THEN start_idx + batch_size ELSE Len(rows)

\* The accessions of the rows of the current batch_df.
BatchAccs == {a \in Acc : \E i \in (start_idx + 1)..end_idx :
                             \E j \in 1..Len(rows[i]) : rows[i][j] = a}

required_tools == {"prefetch", "fasterq-dump", "fastqc"}

\* BatchProcessor.__init__ and verify_tools: RuntimeError when a required tool is missing.
VerifyTools ==
  /\ bpc = "verify"
  /\ bpc' = IF bMissing \cap required_tools # {} THEN "config_error" ELSE "batch"
  /\ UNCHANGED <<bInput, bFs, bOut, bLoop, bLocals, bObs, raising>>
  /\ UNCHANGED notBatchVars

\* main's loop calls process_batch, which creates temp_batch_<n> and an empty list.
BatchStart ==
  /\ bpc = "batch"
  /\ batch_num < num_batches
  /\ tempDirs' = tempDirs \cup {batch_num + 1}
  /\ results' = <<>>
  /\ rowIdx' = start_idx
  /\ bpc' = "row"
  /\ UNCHANGED <<bInput, fqFiles, qcTempDir, qcTemp, qcPerm, bOut, batch_num, accIdx,
                 all_results, bLocals, bObs, raising>>
  /\ UNCHANGED notBatchVars

\* process_batch, lines 291-294: the next row of batch_df.
RowNext ==
  /\ bpc = "row"
  /\ rowIdx < end_idx
  /\ accIdx' = 0
  /\ rowLog' = Append(rowLog, [batch |-> batch_num + 1, row |-> rowIdx + 1])
  /\ bpc' = "acc"
  /\ UNCHANGED <<bInput, bFs, bOut, batch_num, rowIdx, results, all_results, bLocals,
                 bCalls, failedTools, raised, qcProduced, raising>>
  /\ UNCHANGED notBatchVars

RowsDone ==
  /\ bpc = "row"
  /\ rowIdx >= end_idx
  /\ bpc' = "batch_finally"
  /\ UNCHANGED <<bInput, bFs, bOut, bLoop, bLocals, bObs, raising>>
  /\ UNCHANGED notBatchVars

\* Lines 296-299 with process_sample's lines 207-213: the next accession of the row.
AccNext ==
  /\ bpc = "acc"
  /\ accIdx < Len(rows[rowIdx + 1])
  /\ result' = [accession |-> rows[rowIdx + 1][accIdx + 1], status |-> "failed",
                error |-> "None", metrics |-> <<>>, fastq_count |-> 0]
  /\ b_fastq_files' = {}
  /\ qTodo' = {}
  /\ all_metrics' = <<>>
  /\ bpc' = "p_dump"
  /\ UNCHANGED <<bInput, bFs, bOut, bLoop, bObs, raising>>
  /\ UNCHANGED notBatchVars

AccDone ==
  /\ bpc = "acc"
  /\ accIdx >= Len(rows[rowIdx + 1])
  /\ bpc' = "save_open"
  /\ UNCHANGED <<bInput, bFs, bOut, bLoop, bLocals, bObs, raising>>
  /\ UNCHANGED notBatchVars

\* process_sample without the check that the glob found a FASTQ file.
P_Dump_no_glob_check ==
  /\ bpc = "p_dump"
  /\ LET a == result.accession IN
     \E o \in FasterqOutcomes :
       /\ bCalls' = [bCalls EXCEPT ![a] = @ \cup {"fasterq-dump"}]
       /\ fqFiles' = [fqFiles EXCEPT ![a] = o.files]
       /\ IF o.exit # 0
          THEN /\ failedTools' = [failedTools EXCEPT ![a] = @ \cup {"fasterq-dump"}]
               /\ result' = [result EXCEPT !.error = "Command failed"]
               /\ bpc' = "p_return"
               /\ UNCHANGED <<b_fastq_files, qTodo>>
          ELSE /\ UNCHANGED failedTools
               /\ result' = [result EXCEPT !.fastq_count = Cardinality(o.files)]
               /\ b_fastq_files' = o.files
               /\ qTodo' = o.files
               /\ bpc' = "p_qc"
  /\ UNCHANGED <<bInput, tempDirs, qcTempDir, qcTemp, qcPerm, bOut, bLoop, all_metrics,
                 raised, qcProduced, rowLog, raising>>
  /\ UNCHANGED notBatchVars

\* process_sample, lines 215-242: fasterq-dump, then glob the FASTQ files.
P_Dump ==
  /\ bpc = "p_dump"
  /\ LET a == result.accession IN
     \E o \in FasterqOutcomes :
       /\ bCalls' = [bCalls EXCEPT ![a] = @ \cup {"fasterq-dump"}]
       /\ fqFiles' = [fqFiles EXCEPT ![a] = o.files]
       /\ IF o.exit # 0
          THEN /\ failedTools' = [failedTools EXCEPT ![a] = @ \cup {"fasterq-dump"}]
               /\ result' = [result EXCEPT !.error = "Command failed"]
               /\ bpc' = "p_return"
               /\ UNCHANGED <<b_fastq_files, qTodo>>
          ELSE /\ UNCHANGED failedTools
               /\ IF o.files = {}
                  THEN /\ result' = [result EXCEPT !.error = "No FASTQ files generated"]
                       /\ bpc' = "p_return"
                       /\ UNCHANGED <<b_fastq_files, qTodo>>
                  ELSE /\ result' = [result EXCEPT !.fastq_count = Cardinality(o.files)]
                       /\ b_fastq_files' = o.files
                       /\ qTodo' = o.files
                       /\ bpc' = "p_qc"
  /\ UNCHANGED <<bInput, tempDirs, qcTempDir, qcTemp, qcPerm, bOut, bLoop, all_metrics,
                 raised, qcProduced, rowLog, raising>>
  /\ UNCHANGED notBatchVars

\* Lines 248-250 with run_fastqc: FastQC on the next file; a CalledProcessError
\* is logged and {} returned in place of the metrics.
P_Fastqc ==
  /\ bpc = "p_qc"
  /\ qTodo # {}
  /\ LET a == result.accession
         fq == MinOf(qTodo) IN
     \E o \in FastqcOutcomes({fq}) :
       /\ bCalls' = [bCalls EXCEPT ![a] = @ \cup {"fastqc"}]
       /\ qcTempDir' = [qcTempDir EXCEPT ![a] = TRUE]
       /\ qcTemp' = [qcTemp EXCEPT ![a] = @ \cup o.html]
       /\ qcProduced' = [qcProduced EXCEPT ![a] = @ \cup o.html]
       /\ qTodo' = qTodo \ {fq}
       /\ IF o.exit = 0
          THEN /\ all_metrics' = Append(all_metrics, "metrics")
               /\ UNCHANGED failedTools
          ELSE /\ all_metrics' = Append(all_metrics, "empty")
               /\ failedTools' = [failedTools EXCEPT ![a] = @ \cup {"fastqc"}]
  /\ bpc' = "p_qc"
  /\ UNCHANGED <<bInput, tempDirs, fqFiles, qcPerm, bOut, bLoop, result, b_fastq_files,
                 raised, rowLog, raising>>
  /\ UNCHANGED notBatchVars

\* Lines 252-260: store the metrics and copy the QC directory to permanent storage.
P_Copy ==
  /\ bpc = "p_qc"
  /\ qTodo = {}
  /\ LET a == result.accession IN
       qcPerm' = [qcPerm EXCEPT ![a] = IF qcTempDir[a] THEN @ \cup qcTemp[a] ELSE @]
  /\ result' = [result EXCEPT !.metrics = all_metrics]
  /\ bpc' = "p_unlink"
  /\ UNCHANGED <<bInput, tempDirs, fqFiles, qcTempDir, qcTemp, bOut, bLoop,
                 b_fastq_files, qTodo, all_metrics, bObs, raising>>
  /\ UNCHANGED notBatchVars

\* Lines 262-268: unlink the raw FASTQ files unless keep_raw_fastq; status success.
P_Unlink ==
  /\ bpc = "p_unlink"
  /\ LET a == result.accession IN
       fqFiles' = [fqFiles EXCEPT ![a] = IF keep_raw_fastq THEN @ ELSE @ \ b_fastq_files]
  /\ result' = [result EXCEPT !.status = "success"]
  /\ bpc' = "p_return"
  /\ UNCHANGED <<bInput, tempDirs, qcTempDir, qcTemp, qcPerm, bOut, bLoop,
                 b_fastq_files, qTodo, all_metrics, bObs, raising>>
  /\ UNCHANGED notBatchVars

\* An except clause that only logs the exception and stores nothing.
P_Raise_log_only ==
  /\ bpc \in {"p_dump", "p_qc", "p_unlink"}
  /\ raised' = raised \cup {result.accession}
  /\ bpc' = "p_return"
  /\ UNCHANGED <<bInput, bFs, bOut, bLoop, bLocals, bCalls, failedTools, qcProduced,
                 rowLog, raising>>
  /\ UNCHANGED notBatchVars

\* Lines 273-275: any other exception of the try block (OSError from mkdir, stat,
\* copytree, unlink, ...) is caught and its text stored.
P_Raise ==
  /\ bpc \in {"p_dump", "p_qc", "p_unlink"}
  /\ raised' = raised \cup {result.accession}
  /\ result' = [result EXCEPT !.error = "exception"]
  /\ bpc' = "p_return"
  /\ UNCHANGED <<bInput, bFs, bOut, bLoop, b_fastq_files, qTodo, all_metrics, bCalls,
                 failedTools, qcProduced, rowLog, raising>>
  /\ UNCHANGED notBatchVars

\* Line 277 and lines 299-300: process_sample returns and its result is appended.
P_Return ==
  /\ bpc = "p_return"
  /\ results' = Append(results, result)
  /\ accIdx' = accIdx + 1
  /\ bpc' = "acc"
  /\ UNCHANGED <<bInput, bFs, bOut, batch_num, rowIdx, all_results, bLocals, bObs,
                 raising>>
  /\ UNCHANGED notBatchVars

\* save_batch_results, line 317: open(results_file, 'w') truncates the file.
SaveOpen ==
  /\ bpc = "save_open"
  /\ fileState' = [fileState EXCEPT ![batch_num + 1] = "truncated"]
  /\ fileRecs' = [fileRecs EXCEPT ![batch_num + 1] = <<>>]
  /\ bpc' = "save_write"
  /\ UNCHANGED <<bInput, bFs, summaryCsv, summaryFiles, summaryReport, summaryRuns, now,
                 bLoop, bLocals, bObs, raising>>
  /\ UNCHANGED notBatchVars

\* save_batch_results, lines 318-320: json.dump of the whole list, file closed.
SaveWrite ==
  /\ bpc = "save_write"
  /\ fileState' = [fileState EXCEPT ![batch_num + 1] = "written"]
  /\ fileRecs' = [fileRecs EXCEPT ![batch_num + 1] = results]
  /\ rowIdx' = rowIdx + 1
  /\ bpc' = "row"
  /\ UNCHANGED <<bInput, bFs, summaryCsv, summaryFiles, summaryReport, summaryRuns, now,
                 batch_num, accIdx, results,
                 all_results, bLocals, bObs, raising>>
  /\ UNCHANGED notBatchVars

\* An exception of save_batch_results (OSError) leaves the loop through the finally.
SaveRaise ==
  /\ bpc \in {"save_open", "save_write"}
  /\ raising' = TRUE
  /\ bpc' = "batch_finally"
  /\ UNCHANGED <<bInput, bFs, bOut, bLoop, bLocals, bObs>>
  /\ UNCHANGED notBatchVars

\* process_batch with the rmtree as the last statement of the try block instead
\* of a finally clause: an escaping exception skips it.
BatchFinally_in_try ==
  /\ bpc = "batch_finally"
  /\ IF raising
     THEN /\ bpc' = "aborted"
          /\ UNCHANGED <<tempDirs, fqFiles, qcTemp, qcTempDir, all_results, batch_num>>
     ELSE /\ tempDirs' = tempDirs \ {batch_num + 1}
          /\ fqFiles' = [a \in Acc |-> IF a \in BatchAccs THEN {} ELSE fqFiles[a]]
          /\ qcTemp' = [a \in Acc |-> IF a \in BatchAccs THEN {} ELSE qcTemp[a]]
          /\ qcTempDir' = [a \in Acc |-> IF a \in BatchAccs THEN FALSE ELSE qcTempDir[a]]
          /\ all_results' = all_results \o results
          /\ batch_num' = batch_num + 1
          /\ bpc' = "batch"
  /\ UNCHANGED <<bInput, qcPerm, bOut, rowIdx, accIdx, results, bLocals, bObs, raising>>
  /\ UNCHANGED notBatchVars

\* Lines 305-311 and main's lines 456-457: rmtree of temp_batch_<n>; the batch's
\* results join all_results unless the exception goes on to end main.
BatchFinally ==
  /\ bpc = "batch_finally"
  /\ tempDirs' = tempDirs \ {batch_num + 1}
  /\ fqFiles' = [a \in Acc |-> IF a \in BatchAccs THEN {} ELSE fqFiles[a]]
  /\ qcTemp' = [a \in Acc |-> IF a \in BatchAccs THEN {} ELSE qcTemp[a]]
  /\ qcTempDir' = [a \in Acc |-> IF a \in BatchAccs THEN FALSE ELSE qcTempDir[a]]
  /\ IF raising
     THEN bpc' = "aborted" /\ UNCHANGED <<all_results, batch_num>>
     ELSE /\ all_results' = all_results \o results
          /\ batch_num' = batch_num + 1
          /\ bpc' = "batch"
  /\ UNCHANGED <<bInput, qcPerm, bOut, rowIdx, accIdx, results, bLocals, bObs, raising>>
  /\ UNCHANGED notBatchVars

\* main, line 447: the loop over the batches is over.
BatchesDone ==
  /\ bpc = "batch"
  /\ batch_num >= num_batches
  /\ bpc' = "summary"
  /\ UNCHANGED <<bInput, bFs, bOut, bLoop, bLocals, bObs, raising>>
  /\ UNCHANGED notBatchVars

\* The rows of df_list: one per successful result, with the metrics of the
\* first FASTQ file when the metrics list is not empty.
SuccessRows(rs) ==
  LET F[i \in 0..Len(rs)] ==
        IF i = 0 THEN <<>>
        ELSE IF rs[i].status = "success"
             THEN Append(F[i-1], [accession |-> rs[i].accession,
                                  fastq_count |-> rs[i].fastq_count,
                                  first |-> IF rs[i].metrics # <<>>
                                            THEN rs[i].metrics[1] ELSE "none"])
             ELSE F[i-1]
  IN F[Len(rs)]

\* successful = sum(1 for r in all_results if r['status'] == 'success')
CountSuccess(rs) == Cardinality({i \in 1..Len(rs) : rs[i].status = "success"})

\* generate_summary_report with the CSV opened for appending.
WriteSummary_append ==
  /\ summaryCsv' = summaryCsv \o SuccessRows(all_results)
  /\ summaryRuns' = summaryRuns + 1
  /\ IF Len(all_results) = 0
     THEN /\ summaryFiles' = summaryFiles \cup {"csv"}
          /\ UNCHANGED summaryReport
          /\ bpc' = "aborted"
     ELSE /\ summaryFiles' = {"csv", "txt"}
          /\ summaryReport' = [total |-> Len(all_results),
                               successful |-> CountSuccess(all_results),
                               failed |-> Len(all_results) - CountSuccess(all_results),
                               date |-> now]
          /\ bpc' = "done"
  /\ UNCHANGED <<bInput, bFs, fileState, fileRecs, now, bLoop, bLocals, bObs, raising>>
  /\ UNCHANGED notBatchVars

\* What one call of generate_summary_report(all_results) writes: the CSV of the
\* successful samples, then the text report with the date and the counts; the
\* success rate divides by the number of results, so nothing is written after
\* the CSV when the list is empty.
WriteSummary ==
  /\ summaryCsv' = SuccessRows(all_results)
  /\ summaryRuns' = summaryRuns + 1
  /\ IF Len(all_results) = 0
     THEN /\ summaryFiles' = summaryFiles \cup {"csv"}
          /\ UNCHANGED summaryReport
          /\ bpc' = "aborted"
     ELSE /\ summaryFiles' = {"csv", "txt"}
          /\ summaryReport' = [total |-> Len(all_results),
                               successful |-> CountSuccess(all_results),
                               failed |-> Len(all_results) - CountSuccess(all_results),
                               date |-> now]
          /\ bpc' = "done"
  /\ UNCHANGED <<bInput, bFs, fileState, fileRecs, now, bLoop, bLocals, bObs, raising>>
  /\ UNCHANGED notBatchVars

\* main, line 460: generate_summary_report after the last batch.
Summary ==
  /\ bpc = "summary"
  /\ WriteSummary

\* generate_summary_report called again on the same list.
SummaryAgain ==
  /\ bpc = "done"
  /\ summaryRuns < MaxSummaryRuns
  /\ WriteSummary

\* Time passes between two calls of generate_summary_report.
Tick ==
  /\ bpc = "done"
  /\ now < MaxClock
  /\ now' = now + 1
  /\ UNCHANGED <<bInput, bFs, fileState, fileRecs, summaryCsv, summaryFiles,
                 summaryReport, summaryRuns, bpc, bLoop, bLocals, bObs, raising>>
  /\ UNCHANGED notBatchVars

BStopped == {"done", "aborted", "killed", "config_error", "idle"}

\* The process is killed from outside: no handler runs, the filesystem stays as it is.
BCrash ==
  /\ bpc \notin BStopped
  /\ bpc \notin {"verify"}
  /\ bpc' = "killed"
  /\ UNCHANGED <<bInput, bFs, bOut, bLoop, bLocals, bObs, raising>>
  /\ UNCHANGED notBatchVars

NextBatch ==
  \/ VerifyTools \/ BatchStart \/ BatchesDone \/ RowNext \/ RowsDone
  \/ AccNext \/ AccDone
  \/ P_Dump \/ P_Fastqc \/ P_Copy \/ P_Unlink \/ P_Raise \/ P_Return
  \/ SaveOpen \/ SaveWrite \/ SaveRaise \/ BatchFinally
  \/ Summary \/ SummaryAgain \/ Tick \/ BCrash

SpecBatch == InitBatch /\ [][NextBatch]_vars

\* =================================================================== claims
\* The report artifacts of one sample.
Reports(s) == <<rawHtml[s], rawZip[s], cleanHtml[s], cleanZip[s], fastpHtml[s]>>

StageTools(k) ==
  {t \in SeqSampleTools :
     \/ k >= 1 /\ t = "prefetch"
     \/ k >= 2 /\ t = "fasterq-dump"
     \/ k >= 3 /\ t = "fastqc_raw"
     \/ k >= 4 /\ t = "fastp"
     \/ k >= 5 /\ t = "fastqc_clean"}

C2_ResumeAtNextStage ==
  (pc # "killed" /\ lastCrash.k >= 1) =>
     calls[lastCrash.srr] \cap StageTools(lastCrash.k) = {}

\* C8: a stage's tool is invoked only when its input is on disk: fasterq-dump
\* with the SRA file, raw FastQC and fastp with raw FASTQ, clean FastQC with
\* filtered FASTQ.
C8_StageOrdering ==
  [][cur # 0 /\ cur' = cur =>
       LET new == calls'[cur] \ calls[cur] IN
         /\ "fasterq-dump" \in new => (sraWork[cur] \/ sraHome[cur])
         /\ "fastqc_raw" \in new => rawFq[cur] # {}
         /\ "fastp" \in new => rawFq[cur] # {}
         /\ "fastqc_clean" \in new => cleanFq[cur] # {}]_vars

\* C9: wherever the pipeline decides whether a QC stage is done, a directory with
\* a html report and no zip counts as not done, so the stage's FastQC runs again.
C9_HtmlWithoutZipIsNotDone ==
  [][cur # 0 /\ cur' = cur =>
       /\ (pc = "entry" /\ ~ReportsComplete(cur)) => pc' # "loop"
       /\ (pc = "s3" /\ pc' = "s4" /\ rawHtml[cur] # {} /\ rawZip[cur] = {})
             => "fastqc_raw" \in calls'[cur]
       /\ (pc = "s5" /\ pc' = "s5_rm" /\ cleanHtml[cur] # {} /\ cleanZip[cur] = {})
             => "fastqc_clean" \in calls'[cur]]_vars

\* C10: with a tool missing from PATH the run stops before any sample is
\* processed: no per-sample tool is invoked, no FASTQ or report file is written,
\* and MultiQC does not run.
C10_MissingToolAbortsFirst ==
  missing # {} =>
     /\ \A s \in Srr : calls[s] = {} /\ rawFq[s] = {} /\ rawHtml[s] = {}
     /\ mqcCalls = {}

\* ---------------------------------------------------------------- batch claims
IsPrefix(p, q) == Len(p) <= Len(q) /\ \A i \in 1..Len(p) : p[i] = q[i]

\* The samples of the current batch whose process_sample call has returned.
Returned == {results[i].accession : i \in 1..Len(results)}

InProcessBatch == batch_num + 1 \in tempDirs

\* C3: whenever the processing of a sample has returned (raw FASTQ files are not
\* asked to be kept), no FASTQ file of that sample is on disk any more and the
\* QC reports produced for it still are.
C3_CleanupInvariant ==
  (InProcessBatch /\ ~keep_raw_fastq) =>
     \A a \in Returned :
        /\ fqFiles[a] = {}
        /\ qcProduced[a] \subseteq (qcPerm[a] \cup qcTemp[a])

\* C4: at every point of process_batch, the batch result file holds a prefix of
\* the results of the samples finished so far, and at most one finished sample's
\* result is missing from it.
C4_BatchDurability ==
  InProcessBatch =>
     /\ IsPrefix(fileRecs[batch_num + 1], results)
     /\ Len(results) - Len(fileRecs[batch_num + 1]) <= 1

\* C5: whatever error occurred while a sample was processed (a tool that exited
\* non-zero, an exception), that sample's result carries the error.
C5_ErrorRecorded ==
  \A i \in 1..Len(results) :
     LET a == results[i].accession IN
       (failedTools[a] # {} \/ a \in raised) => results[i].error # "None"

\* C6: a sample one of whose tool invocations failed has status failed; in
\* particular a sample whose FastQC invocation failed is never a success.
C6_ToolFailureFails ==
  \A i \in 1..Len(results) :
     failedTools[results[i].accession] # {} => results[i].status = "failed"

\* C7: when free space is below the minimum, no external tool is invoked for any
\* sample and every sample's outcome is Skipped.
C7_DiskAdmission ==
  diskLow =>
     /\ \A a \in Acc : bCalls[a] = {}
     /\ \A i \in 1..Len(results) : results[i].status = "skipped"

\* C11: whenever process_batch has returned or raised, whatever the outcomes of
\* its samples, no temp_batch_<n> directory exists.
C11_TempRootReleased ==
  bpc \in {"batch", "summary", "done", "aborted"} => tempDirs = {}

\* process_batch has raised after one sample succeeded and another failed.
C11_Witness ==
  /\ bpc = "aborted" /\ raising
  /\ \E i, j \in 1..Len(results) :
        results[i].status = "success" /\ results[j].status = "failed"
  /\ tempDirs = {}

\* The batch result files hold a record of accession a.
Persisted(a) ==
  \E b \in Batches : \E i \in 1..Len(fileRecs[b]) : fileRecs[b][i].accession = a

\* C12: no FASTQ or temporary QC file of a sample is deleted before the
\* sample's result has been written to the batch result file.
C12_DeleteAfterPersisted ==
  [][\A a \in Acc :
       (fqFiles'[a] # fqFiles[a] /\ fqFiles'[a] \subseteq fqFiles[a])
          \/ (qcTemp'[a] # qcTemp[a] /\ qcTemp'[a] \subseteq qcTemp[a])
       => Persisted(a)]_vars

\* C13: every QC report a sample has produced is still on disk, in the batch's
\* temporary QC directory or in the permanent one, whatever happened afterwards.
C13_ReportsNeverRemoved ==
  \A a \in Acc : qcProduced[a] \subseteq (qcPerm[a] \cup qcTemp[a])

\* How many rows process_batch was given for batch b.
BatchLen(b) == Cardinality({k \in 1..Len(rowLog) : rowLog[k].batch = b})

\* C14: the rows are taken in input order, each once; batch numbers start at 1
\* and go up by one; no batch has more than batch_size rows and a batch that is
\* followed by another has exactly batch_size; once the loop over the batches is
\* over every row has been in a batch and there were ceil(n / batch_size) batches.
C14_BatchSplitting ==
  /\ \A k \in 1..Len(rowLog) :
        /\ rowLog[k].row = k
        /\ \/ rowLog[k].batch = (IF k = 1 THEN 1 ELSE rowLog[k-1].batch)
           \/ /\ k > 1
              /\ rowLog[k].batch = rowLog[k-1].batch + 1
              /\ BatchLen(rowLog[k-1].batch) = batch_size
        /\ BatchLen(rowLog[k].batch) <= batch_size
  /\ bpc \in {"summary", "done"} =>
        /\ Len(rowLog) = Len(rows)
        /\ LET nb == rowLog[Len(rowLog)].batch IN
             /\ (nb - 1) * batch_size < Len(rows)
             /\ Len(rows) <= nb * batch_size
             /\ \A b \in 1..nb : BatchLen(b) >= 1

\* Two single-accession rows with batch size 1 have given two result files of
\* one record each.
C14_Witness ==
  /\ bpc = "done" /\ batch_size = 1
  /\ rows = <<<<1>>, <<2>>>>
  /\ Len(fileRecs[1]) = 1 /\ Len(fileRecs[2]) = 1
  /\ fileRecs[1][1].accession = 1 /\ fileRecs[2][1].accession = 2
  /\ rowLog = <<[batch |-> 1, row |-> 1], [batch |-> 2, row |-> 2]>>

\* The result records process_sample has returned so far in this run.
ReturnedRecords ==
  {results[i] : i \in 1..Len(results)} \cup {all_results[i] : i \in 1..Len(all_results)}
     \cup (IF bpc = "p_return" THEN {result} ELSE {})

\* C15: every returned result has status success, failed or skipped, and carries
\* an error text exactly when its status is failed.
C15_ResultRecord ==
  \A r \in ReturnedRecords :
     /\ r.status \in {"success", "failed", "skipped"}
     /\ (r.error # "None") <=> (r.status = "failed")

\* One batch has returned a success and a failure.
C15_Witness ==
  /\ \E i \in 1..Len(results) : results[i].status = "success" /\ results[i].error = "None"
  /\ \E i \in 1..Len(results) : results[i].status = "failed" /\ results[i].error # "None"

\* C16: a sample during whose processing an unexpected exception was raised has
\* been returned as failed with the exception text, and its FASTQ files have
\* been cleaned up (raw FASTQ files are not asked to be kept).
C16_ExceptionCaughtAndCleaned ==
  (InProcessBatch /\ ~keep_raw_fastq) =>
     \A i \in 1..Len(results) :
        results[i].accession \in raised =>
           /\ results[i].status = "failed"
           /\ results[i].error = "exception"
           /\ fqFiles[results[i].accession] = {}

\* This step is one invocation of fastqc by process_sample.
FastqcInvoked == bpc = "p_qc" /\ qTodo' # qTodo

\* C17: once a tool invocation of a sample has failed, no tool is invoked again
\* for that sample in the run.
C17_NoToolAfterFailure ==
  [][\A a \in Acc :
       failedTools[a] # {} =>
          /\ bCalls'[a] = bCalls[a]
          /\ ~(result.accession = a /\ FastqcInvoked)]_vars

\* C18: the FASTQ files of two samples are never on disk at the same time (raw
\* FASTQ files are not asked to be kept).
C18_OneSampleOnDisk ==
  ~keep_raw_fastq => Cardinality({a \in Acc : fqFiles[a] # {}}) <= 1

\* C20: no step removes or changes a record of a batch result file; a file only
\* ever gains records after the ones it holds.
C20_ResultFileAppendOnly ==
  [][\A b \in Batches : IsPrefix(fileRecs[b], fileRecs'[b])]_vars

\* C19: a sample is skipped by the run only when the free space is below the
\* minimum.
C19_SkippedOnlyByAdmission ==
  \A i \in 1..Len(samples_skipped) : diskLow

\* The positions of the successful results of the run.
SuccIdx == {i \in 1..Len(all_results) : all_results[i].status = "success"}

\* C21: once generate_summary_report has been called, the text report gives
\* total, successful and failed of the result list, and the CSV has one row per
\* successful result, in result order, with its accession, its FASTQ count and
\* the metrics of its first FASTQ file.
C21_SummaryAggregation ==
  summaryRuns >= 1 =>
     /\ "txt" \in summaryFiles
     /\ summaryReport.total = Len(all_results)
     /\ summaryReport.successful = Cardinality(SuccIdx)
     /\ summaryReport.failed = Len(all_results) - Cardinality(SuccIdx)
     /\ Len(summaryCsv) = Cardinality(SuccIdx)
     /\ \A i \in SuccIdx :
          LET row == summaryCsv[Cardinality({j \in SuccIdx : j <= i})] IN
            /\ row.accession = all_results[i].accession
            /\ row.fastq_count = all_results[i].fastq_count
            /\ row.first = all_results[i].metrics[1]

\* This step is a second call of generate_summary_report on the same list.
SummaryRerunStep == bpc = "done" /\ summaryRuns' = summaryRuns + 1

C29_SummaryNeverRaises ==
  summaryRuns >= 1 => (bpc = "done" /\ summaryFiles = {"csv", "txt"})

\* C25: after process_batch has returned, the raw FASTQ files of a successfully
\* processed sample are on disk exactly when keep_raw_fastq is set.
C25_KeepRawFastq ==
  \A i \in 1..Len(all_results) :
     all_results[i].status = "success" =>
        (keep_raw_fastq <=> fqFiles[all_results[i].accession] # {})

\* C28: a returned success has at least one FASTQ file, one metrics entry per
\* FASTQ file, and a fasterq-dump that exited 0; a sample whose fasterq-dump
\* exited 0 without leaving a FASTQ file is returned failed with the error
\* 'No FASTQ files generated'.
C28_SuccessImpliesData ==
  \A r \in ReturnedRecords :
     /\ r.status = "success" =>
           /\ r.fastq_count >= 1
           /\ Len(r.metrics) = r.fastq_count
           /\ "fasterq-dump" \in bCalls[r.accession]
           /\ "fasterq-dump" \notin failedTools[r.accession]
     /\ ("fasterq-dump" \in bCalls[r.accession]
           /\ failedTools[r.accession] = {} /\ r.accession \notin raised
           /\ r.fastq_count = 0)
          => (r.status = "failed" /\ r.error = "No FASTQ files generated")

\* A batch has returned a success with two FASTQ files, one of whose FastQC runs
\* failed, and a sample for which no FASTQ file was generated.
C28_Witness ==
  /\ \E i \in 1..Len(results) :
        /\ results[i].status = "success" /\ results[i].fastq_count = 2
        /\ results[i].metrics = <<"empty", "metrics">>
  /\ \E i \in 1..Len(results) : results[i].error = "No FASTQ files generated"

\* This step is a call of process_srr that finds the sample already processed.
EntryOnProcessed == pc = "entry" /\ ReportsComplete(cur) /\ pc' # "killed"

\* C30: the filter splits the list, in list order, into the samples that were
\* processed when the run started and the others; process_srr is only called on
\* the others; and a call that finds its sample processed invokes no tool and
\* changes no file.
C30_ProcessedLeftUntouched ==
  [][/\ pc' \notin {"filter", "idle", "killed"} =>
          LET Done(s) == s \in doneAtStart'
              NotDone(s) == s \notin doneAtStart' IN
            /\ samples_skipped' = SelectSeq(srr_ids', Done)
            /\ samples_to_process' = SelectSeq(srr_ids', NotDone)
     /\ pc' = "entry" => cur' = samples_to_process'[idx']
     /\ EntryOnProcessed =>
          /\ pc' = "loop"
          /\ UNCHANGED <<seqFs, calls, mqcCalls>>]_vars

\* The id is listed twice; the first call processed it, the second returned at
\* the entry check.
C30_Witness ==
  /\ run = 1 /\ pc = "loop" /\ idx = 2 /\ earlyReturns = 1
  /\ srr_ids = <<1, 1>> /\ samples_to_process = <<1, 1>>
  /\ ReportsComplete(1) /\ calls[1] # {}

\* ======================================================================
\* scripts/download_all_metadata.py: MetadataDownloader and main
\* ======================================================================

\* MetadataDownloader.__init__, line 47: 0.5 s, which is two quarters of a second.
min_request_interval == 2

\* download_metadata, lines 309-314: the record of one id (its summary and full parts are
\* kept no further than whether search_srr found a UID).
MetaRecord(id, uid) == [srr_id |-> id, uid |-> uid]

RecIds(l) == {l[i].srr_id : i \in 1..Len(l)}

\* json.dump of a list to a file opened with 'w'.
Written(l) == [exists |-> TRUE, valid |-> TRUE, recs |-> l]

\* What open(file, 'w') leaves before anything is written: an empty file, which
\* json.load rejects.
Truncated == [exists |-> TRUE, valid |-> FALSE, recs |-> <<>>]

\* main, lines 683-710: the ids go through a set, so each is there once; a new
\* MetadataDownloader has last_request_time = 0 and time.time() is far beyond it.
InitMeta ==
  /\ SeqIdle /\ BatchIdle /\ QcIdle
  /\ m_srr_ids \in {[i \in 1..n |-> i] : n \in 1..MaxIds}
  /\ max_workers \in 1..MaxWorkers
  /\ temp_file = NoFile /\ json_file = NoFile /\ csv_file = NoFile
  /\ mpc = "start" /\ all_metadata = <<>>
  /\ executorQueue = <<>> /\ completed = <<>>
  /\ wpc = [w \in Workers |-> "idle"]
  /\ wtask = [w \in Workers |-> 0]
  /\ wreq = [w \in Workers |-> "none"]
  /\ wwake = [w \in Workers |-> 0]
  /\ wuid = [w \in Workers |-> FALSE]
  /\ last_request_time = 0 /\ clock = min_request_interval
  /\ reqTimes = <<>> /\ loaded = {} /\ started = {} /\ mRun = 1

mWorkers == <<wpc, wtask, wreq, wwake, wuid>>
mFiles == <<temp_file, json_file, csv_file>>
mInput == <<m_srr_ids, max_workers>>

\* download_batch, lines 342-352: load the partial file; a file json.load rejects is
\* passed over.
M_Load ==
  /\ mpc = "start"
  /\ all_metadata' = IF temp_file.exists /\ temp_file.valid THEN temp_file.recs ELSE <<>>
  /\ loaded' = RecIds(all_metadata')
  /\ mpc' = "submit"
  /\ UNCHANGED <<mInput, mFiles, executorQueue, completed, mWorkers, last_request_time,
                 clock, reqTimes, started, mRun>>
  /\ UNCHANGED notMetaVars

\* download_batch, lines 354-358: every id of srr_ids is submitted.
M_Submit ==
  /\ mpc = "submit"
  /\ executorQueue' = m_srr_ids
  /\ mpc' = "collect"
  /\ UNCHANGED <<mInput, mFiles, all_metadata, completed, mWorkers, last_request_time,
                 clock, reqTimes, loaded, started, mRun>>
  /\ UNCHANGED notMetaVars

\* The threads of the executor run while the with block of download_batch is open.
PoolOpen == mpc \in {"collect", "dump"}

\* A free thread of the pool takes the oldest submitted call: download_metadata,
\* lines 307-317, up to the _rate_limit of search_srr.
W_Take(w) ==
  /\ PoolOpen /\ w <= max_workers
  /\ wpc[w] = "idle" /\ executorQueue # <<>>
  /\ wtask' = [wtask EXCEPT ![w] = Head(executorQueue)]
  /\ executorQueue' = Tail(executorQueue)
  /\ started' = started \cup {Head(executorQueue)}
  /\ wpc' = [wpc EXCEPT ![w] = "rl_read"]
  /\ wreq' = [wreq EXCEPT ![w] = "search"]
  /\ UNCHANGED <<mInput, mFiles, mpc, all_metadata, completed, wwake, wuid,
                 last_request_time, clock, reqTimes, loaded, mRun>>
  /\ UNCHANGED notMetaVars

\* _rate_limit, lines 51-52: read the clock and last_request_time, decide to sleep.
W_RlRead(w) ==
  /\ PoolOpen /\ wpc[w] = "rl_read"
  /\ LET elapsed == clock - last_request_time IN
       IF elapsed < min_request_interval
       THEN /\ wwake' = [wwake EXCEPT ![w] = clock + (min_request_interval - elapsed)]
            /\ wpc' = [wpc EXCEPT ![w] = "rl_sleep"]
       ELSE /\ wpc' = [wpc EXCEPT ![w] = "rl_set"]
            /\ UNCHANGED wwake
  /\ UNCHANGED <<mInput, mFiles, mpc, all_metadata, executorQueue, completed, wtask, wreq,
                 wuid, last_request_time, clock, reqTimes, loaded, started, mRun>>
  /\ UNCHANGED notMetaVars

\* _rate_limit, line 53: time.sleep returns once the time asked for has passed.
W_RlSleep(w) ==
  /\ PoolOpen /\ wpc[w] = "rl_sleep"
  /\ clock >= wwake[w]
  /\ wpc' = [wpc EXCEPT ![w] = "rl_set"]
  /\ UNCHANGED <<mInput, mFiles, mpc, all_metadata, executorQueue, completed, wtask, wreq,
                 wwake, wuid, last_request_time, clock, reqTimes, loaded, started, mRun>>
  /\ UNCHANGED notMetaVars

LastTwo(l, t) == IF l = <<>> THEN <<t>> ELSE <<l[Len(l)], t>>

\* _rate_limit, line 54, and the requests.get that follows it at once (lines 76, 108,
\* 141); the except clauses of the three callers turn every failure into None or {}.
W_Request(w) ==
  /\ PoolOpen /\ wpc[w] = "rl_set"
  /\ last_request_time' = clock
  /\ reqTimes' = LastTwo(reqTimes, clock)
  /\ \/ /\ wreq[w] = "search"
        /\ \E found \in BOOLEAN :
             /\ wuid' = [wuid EXCEPT ![w] = found]
             /\ wreq' = [wreq EXCEPT ![w] = IF found THEN "summary" ELSE "full"]
        /\ wpc' = [wpc EXCEPT ![w] = "rl_read"]
        /\ UNCHANGED <<wtask, completed>>
     \/ /\ wreq[w] = "summary"
        /\ wreq' = [wreq EXCEPT ![w] = "full"]
        /\ wpc' = [wpc EXCEPT ![w] = "rl_read"]
        /\ UNCHANGED <<wtask, wuid, completed>>
     \/ /\ wreq[w] = "full"
        /\ completed' = Append(completed, MetaRecord(wtask[w], wuid[w]))
        /\ wpc' = [wpc EXCEPT ![w] = "idle"]
        /\ wtask' = [wtask EXCEPT ![w] = 0]
        /\ wreq' = [wreq EXCEPT ![w] = "none"]
        /\ wuid' = [wuid EXCEPT ![w] = FALSE]
  /\ UNCHANGED <<mInput, mFiles, mpc, all_metadata, executorQueue, wwake, clock,
                 loaded, started, mRun>>
  /\ UNCHANGED notMetaVars

\* download_batch, lines 360-368: as_completed yields a finished future, its record is
\* appended and the partial file is opened for writing.
M_Collect ==
  /\ mpc = "collect" /\ completed # <<>>
  /\ all_metadata' = Append(all_metadata, Head(completed))
  /\ completed' = Tail(completed)
  /\ temp_file' = Truncated
  /\ mpc' = "dump"
  /\ UNCHANGED <<mInput, json_file, csv_file, executorQueue, mWorkers, last_request_time,
                 clock, reqTimes, loaded, started, mRun>>
  /\ UNCHANGED notMetaVars

\* download_batch, line 369: json.dump(all_metadata, f).
M_Dump ==
  /\ mpc = "dump"
  /\ temp_file' = Written(all_metadata)
  /\ mpc' = "collect"
  /\ UNCHANGED <<mInput, json_file, csv_file, all_metadata, executorQueue, completed,
                 mWorkers, last_request_time, clock, reqTimes, loaded, started, mRun>>
  /\ UNCHANGED notMetaVars

\* download_batch, line 374: every future has been yielded and the pool is shut down.
M_Return ==
  /\ mpc = "collect"
  /\ completed = <<>> /\ executorQueue = <<>>
  /\ \A w \in Workers : wpc[w] = "idle"
  /\ mpc' = "unlink"
  /\ UNCHANGED <<mInput, mFiles, all_metadata, executorQueue, completed, mWorkers,
                 last_request_time, clock, reqTimes, loaded, started, mRun>>
  /\ UNCHANGED notMetaVars

\* main, lines 713-716: the partial file is removed.
M_Unlink ==
  /\ mpc = "unlink"
  /\ temp_file' = NoFile
  /\ mpc' = "save"
  /\ UNCHANGED <<mInput, json_file, csv_file, all_metadata, executorQueue, completed,
                 mWorkers, last_request_time, clock, reqTimes, loaded, started, mRun>>
  /\ UNCHANGED notMetaVars

\* save_metadata, lines 432-438: the JSON file.
M_SaveJson ==
  /\ mpc = "save"
  /\ json_file' = Written(all_metadata)
  /\ mpc' = "save_csv"
  /\ UNCHANGED <<mInput, temp_file, csv_file, all_metadata, executorQueue, completed,
                 mWorkers, last_request_time, clock, reqTimes, loaded, started, mRun>>
  /\ UNCHANGED notMetaVars

\* save_metadata, lines 441-542: one CSV row per record.
M_SaveCsv ==
  /\ mpc = "save_csv"
  /\ csv_file' = Written([i \in 1..Len(all_metadata) |-> all_metadata[i].srr_id])
  /\ mpc' = "done"
  /\ UNCHANGED <<mInput, temp_file, json_file, all_metadata, executorQueue, completed,
                 mWorkers, last_request_time, clock, reqTimes, loaded, started, mRun>>
  /\ UNCHANGED notMetaVars

\* Time passes.
M_Tick ==
  /\ mpc \notin {"idle", "done", "killed"}
  /\ clock < MaxTime
  /\ clock' = clock + 1
  /\ UNCHANGED <<mInput, mFiles, mpc, all_metadata, executorQueue, completed, mWorkers,
                 last_request_time, reqTimes, loaded, started, mRun>>
  /\ UNCHANGED notMetaVars

\* The process is killed: its threads and what they held are gone, the files stay.
M_Crash ==
  /\ mpc \notin {"idle", "done", "killed"}
  /\ mpc' = "killed"
  /\ executorQueue' = <<>> /\ completed' = <<>>
  /\ wpc' = [w \in Workers |-> "idle"]
  /\ wtask' = [w \in Workers |-> 0]
  /\ wreq' = [w \in Workers |-> "none"]
  /\ wwake' = [w \in Workers |-> 0]
  /\ wuid' = [w \in Workers |-> FALSE]
  /\ UNCHANGED <<mInput, mFiles, all_metadata, last_request_time, clock, reqTimes,
                 loaded, started, mRun>>
  /\ UNCHANGED notMetaVars

\* The script is started again on the same CSV files.
M_Restart ==
  /\ mpc = "killed" /\ mRun < MaxMetaRuns
  /\ mRun' = mRun + 1
  /\ mpc' = "start"
  /\ all_metadata' = <<>>
  /\ last_request_time' = 0
  /\ reqTimes' = <<>> /\ loaded' = {} /\ started' = {}
  /\ UNCHANGED <<mInput, mFiles, executorQueue, completed, mWorkers, clock>>
  /\ UNCHANGED notMetaVars

NextMeta ==
  \/ M_Load \/ M_Submit
  \/ \E w \in Workers : W_Take(w) \/ W_RlRead(w) \/ W_RlSleep(w) \/ W_Request(w)
  \/ M_Collect \/ M_Dump \/ M_Return \/ M_Unlink \/ M_SaveJson \/ M_SaveCsv
  \/ M_Tick \/ M_Crash \/ M_Restart

SpecMeta == InitMeta /\ [][NextMeta]_vars

InFlight == {w \in Workers : wtask[w] # 0}

\* C23: whatever the interleaving of the worker threads, at most max_workers
\* download_metadata calls are in flight and two consecutive HTTP requests are at least
\* min_request_interval apart.
C23_RateLimit ==
  /\ Cardinality(InFlight) <= max_workers
  /\ Len(reqTimes) = 2 => reqTimes[2] - reqTimes[1] >= min_request_interval

Holds(f, l) == f.exists /\ f.valid /\ f.recs = l

\* C24: inside download_batch, once a download has been collected the partial file holds
\* every record gathered so far; and from the return of download_batch until the final
\* files are written the records are held by a file, the partial one or the final JSON.
C24_SavedAfterEveryRecord ==
  /\ (mpc = "collect" /\ all_metadata # <<>>) => Holds(temp_file, all_metadata)
  /\ (mpc \in {"unlink", "save", "save_csv", "done"} /\ all_metadata # <<>>)
        => (Holds(temp_file, all_metadata) \/ Holds(json_file, all_metadata))

NoDuplicate(l) == \A i, j \in 1..Len(l) : i # j => l[i].srr_id # l[j].srr_id

\* C27: when download_batch starts from a partial file, no id that file holds is
\* downloaded again, and neither the list nor the partial file names an id twice.
C27_ResumeWithoutDuplicates ==
  /\ loaded \cap started = {}
  /\ NoDuplicate(all_metadata)
  /\ NoDuplicate(temp_file.recs)

\* ======================================================================
\* src/cardiogen/fastq_qc.py: process_fastq_files
\* ======================================================================

\* config/config.py, line 51.
MAX_PARALLEL_PROCESSES == 4

\* QualityControl.verify_tools, line 40.
qc_required_tools == {"fastqc", "multiqc", "trimmomatic"}

\* The futures of the pairs that were found.
FastqcOf(np) == {j \in FastqcJobs : j.n <= 2 * np}
TrimOf(np) == {j \in TrimJobs : j.n <= np}

Running == {j \in Jobs : jobStatus[j] = "running"}

\* A future is done: the call returned True, returned False or raised.
Finished(j) == jobStatus[j] \in {"true", "false", "raised"}

InitQc ==
  /\ SeqIdle /\ BatchIdle /\ MetaIdle
  /\ fastq_pairs \in 0..MaxPairs
  /\ qcMissing \in {{}} \cup {{t} : t \in qc_required_tools}
  /\ qpc = "verify"
  /\ jobStatus = [j \in Jobs |-> "none"]
  /\ workQueue = <<>> /\ consumed = {}
  /\ multiqcCalls = 0 /\ peakRunning = 0

\* process_fastq_files, lines 126-134: QualityControl() raises RuntimeError when a tool
\* is missing; otherwise the pairs are collected.
Q_Verify ==
  /\ qpc = "verify"
  /\ qpc' = IF qcMissing # {} THEN "aborted" ELSE "submit_fastqc"
  /\ UNCHANGED <<fastq_pairs, qcMissing, jobStatus, workQueue, consumed, multiqcCalls,
                 peakRunning>>
  /\ UNCHANGED notQcVars

Submitted(st, js) == [j \in Jobs |-> IF j \in js THEN "queued" ELSE st[j]]

\* Lines 137-144: run_fastqc is submitted for both files of every pair.
Q_SubmitFastqc ==
  /\ qpc = "submit_fastqc"
  /\ workQueue' = workQueue \o [i \in 1..(2 * fastq_pairs) |-> [kind |-> "fastqc", n |-> i]]
  /\ jobStatus' = Submitted(jobStatus, FastqcOf(fastq_pairs))
  /\ qpc' = "wait_fastqc"
  /\ UNCHANGED <<fastq_pairs, qcMissing, consumed, multiqcCalls, peakRunning>>
  /\ UNCHANGED notQcVars

\* The executor has a free thread while fewer than max_workers calls are running.
ThreadFree == Cardinality(Running) < MAX_PARALLEL_PROCESSES

\* A free thread of the executor starts the oldest submitted call.
Q_Start ==
  /\ qpc \in {"wait_fastqc", "wait_trim"}
  /\ workQueue # <<>> /\ ThreadFree
  /\ jobStatus' = [jobStatus EXCEPT ![Head(workQueue)] = "running"]
  /\ workQueue' = Tail(workQueue)
  /\ peakRunning' = IF Cardinality(Running) + 1 > peakRunning
                    THEN Cardinality(Running) + 1 ELSE peakRunning
  /\ UNCHANGED <<fastq_pairs, qcMissing, qpc, consumed, multiqcCalls>>
  /\ UNCHANGED notQcVars

\* run_fastqc (lines 49-64) and run_trimmomatic (lines 66-106) end: True, False on
\* CalledProcessError, or another exception, which the except clause does not catch
\* (the missing Trimmomatic JAR of line 90 is one).
Q_Finish(j) ==
  /\ qpc \in {"wait_fastqc", "wait_trim"}
  /\ jobStatus[j] = "running"
  /\ \E out \in {"true", "false", "raised"} :
       jobStatus' = [jobStatus EXCEPT ![j] = out]
  /\ UNCHANGED <<fastq_pairs, qcMissing, qpc, workQueue, consumed, multiqcCalls,
                 peakRunning>>
  /\ UNCHANGED notQcVars

\* The futures the running as_completed loop is over.
Awaited ==
  IF qpc = "wait_fastqc" THEN FastqcOf(fastq_pairs)
  ELSE IF qpc = "wait_trim" THEN TrimOf(fastq_pairs) ELSE {}

\* Lines 147-153 and 164-170: as_completed yields a finished future; a False result and an
\* exception of future.result() are logged and the loop goes on.
Q_Yield ==
  /\ \E j \in Awaited \ consumed :
       /\ Finished(j)
       /\ consumed' = consumed \cup {j}
  /\ UNCHANGED <<fastq_pairs, qcMissing, qpc, jobStatus, workQueue, multiqcCalls,
                 peakRunning>>
  /\ UNCHANGED notQcVars

\* A loop that stops at the first future it is given.
Exhausted_at_first(js) == js = {} \/ js \cap consumed # {}

\* The for loop over as_completed(js) ends when it has yielded every future of js.
Exhausted(js) == js \subseteq consumed

\* Lines 155-161: run_trimmomatic is submitted for every pair.
Q_SubmitTrim ==
  /\ qpc = "wait_fastqc" /\ Exhausted(FastqcOf(fastq_pairs))
  /\ workQueue' = workQueue \o [i \in 1..fastq_pairs |-> [kind |-> "trimmomatic", n |-> i]]
  /\ jobStatus' = Submitted(jobStatus, TrimOf(fastq_pairs))
  /\ qpc' = "wait_trim"
  /\ UNCHANGED <<fastq_pairs, qcMissing, consumed, multiqcCalls, peakRunning>>
  /\ UNCHANGED notQcVars

\* Lines 171-174: the with block ends and run_multiqc is called.
Q_Multiqc ==
  /\ qpc = "wait_trim" /\ Exhausted(TrimOf(fastq_pairs))
  /\ multiqcCalls' = multiqcCalls + 1
  /\ qpc' = "done"
  /\ UNCHANGED <<fastq_pairs, qcMissing, jobStatus, workQueue, consumed, peakRunning>>
  /\ UNCHANGED notQcVars

NextQc ==
  \/ Q_Verify \/ Q_SubmitFastqc \/ Q_Start
  \/ \E j \in Jobs : Q_Finish(j)
  \/ Q_Yield \/ Q_SubmitTrim \/ Q_Multiqc

SpecQc == InitQc /\ [][NextQc]_vars

\* C26: no Trimmomatic job is submitted before every FastQC job has finished (with True,
\* with False or with an exception), MultiQC is invoked only after every Trimmomatic job
\* has finished, and at most MAX_PARALLEL_PROCESSES jobs run at once.
C26_FastqcBeforeTrimmomatic ==
  /\ (\E j \in TrimJobs : jobStatus[j] # "none")
        => \A j \in FastqcOf(fastq_pairs) : Finished(j)
  /\ multiqcCalls > 0 => \A j \in TrimOf(fastq_pairs) : Finished(j)
  /\ \A j \in Jobs \ (FastqcOf(fastq_pairs) \cup TrimOf(fastq_pairs)) : jobStatus[j] = "none"
  /\ Cardinality(Running) <= MAX_PARALLEL_PROCESSES
  /\ multiqcCalls <= 1

C26_Witness ==
  /\ qpc = "done" /\ multiqcCalls = 1 /\ fastq_pairs = MaxPairs
  /\ peakRunning = MAX_PARALLEL_PROCESSES
  /\ \E j \in FastqcJobs : jobStatus[j] = "raised"
  /\ \E j \in FastqcJobs : jobStatus[j] = "false"
  /\ \E j \in TrimJobs : jobStatus[j] = "raised"
  /\ \E j \in TrimJobs : jobStatus[j] = "true"

====
